---- MODULE Spec2Model ----
(***************************************************************************)
(* Model of examples/fastapi_users_usage.py: the module-level backend      *)
(* switch, the four /examples endpoints with their identity-resolution     *)
(* dependencies, the two pydantic records and the add_user_info            *)
(* middleware.  A request in flight is one element of the bag `inflight`;  *)
(* the asyncio event loop interleaves requests at their suspension points. *)
(***************************************************************************)
EXTENDS Bags, FiniteSets, Integers, Sequences, TLC

VARIABLES environ,    \* value of FASTAPI_USERS_BACKEND in the process environment
          BACKEND,    \* module global BACKEND (NotImported before the import)
          auth,       \* the module current_active_user/current_superuser were imported from
          pydantic,   \* major version of the installed pydantic (fixed by the build)
          inflight,   \* bag of the requests being served
          created     \* history: number of POST /examples/items that returned an item

vars == <<environ, BACKEND, auth, pydantic, inflight, created>>

----------------------------------------------------------------------------
(* Bounds *)

\* requests served concurrently
NReq == 2

\* POSTs counted by the history variable
MaxPosts == 2

----------------------------------------------------------------------------
(* Python values *)

\* the environment variable is not set
Unset == "<unset>"
\* Python's None / JSON null
None == "<None>"
\* the object has no such attribute / the JSON body has no such key
Missing == "<missing>"
NotImported == "<not imported>"

EnvValues == {Unset, "sqlalchemy", "beanie", "SQLAlchemy"}

PydanticVersions == {"v1", "v2"}

\* str(x) of an identifier
str(x) == ToString(x)

----------------------------------------------------------------------------
(* The authentication collaborator (package app.auth), as the spec describes it *)

SqlalchemyModule == "app.auth.manager"
BeanieModule == "app.auth.manager_beanie"

\* the User entities the collaborator can resolve
Users ==
  { [id |-> 42, email |-> "alice@example.com", is_active |-> TRUE,
     is_superuser |-> FALSE, username |-> Missing],
    [id |-> 13, email |-> "bob@example.com", is_active |-> TRUE,
     is_superuser |-> FALSE, username |-> None],
    [id |-> 7, email |-> "root@example.com", is_active |-> TRUE,
     is_superuser |-> TRUE, username |-> "root"] }

NoUser == [none |-> TRUE]

\* what a request presents: no credentials, or the credentials of a user
Anonymous == "<anonymous>"
Credentials == {Anonymous} \cup {u.email : u \in Users}

UserOf(creds) == CHOOSE u \in Users : u.email = creds

Unauthorized == [status |-> 401, body |-> [detail |-> "Unauthorized"]]
Forbidden == [status |-> 403, body |-> [detail |-> "Forbidden"]]

Resolved(u) == [ok |-> TRUE, user |-> u, error |-> [status |-> 0, body |-> [none |-> TRUE]]]
Failed(e) == [ok |-> FALSE, user |-> NoUser, error |-> e]

\* the dependency yielding the request's user, failing if unauthenticated
current_active_user(creds) ==
  IF creds = Anonymous THEN Failed(Unauthorized)
  ELSE IF ~UserOf(creds).is_active THEN Failed(Unauthorized)
  ELSE Resolved(UserOf(creds))

\* the dependency additionally requiring elevated privilege
current_superuser(creds) ==
  IF ~current_active_user(creds).ok THEN current_active_user(creds)
  ELSE IF ~UserOf(creds).is_superuser THEN Failed(Forbidden)
  ELSE Resolved(UserOf(creds))

----------------------------------------------------------------------------
(* Backend selection at import *)

\* os.getenv(name, default)
getenv(value, default) == IF value = Unset THEN default ELSE value

\* variant: the comparison ignores letter case
ImportedModule_caseless(backend) ==
  IF backend \in {"sqlalchemy", "SQLAlchemy"} THEN SqlalchemyModule ELSE BeanieModule

\* the module the if/else imports current_active_user and current_superuser from
ImportedModule(backend) ==
  IF backend = "sqlalchemy" THEN SqlalchemyModule ELSE BeanieModule

----------------------------------------------------------------------------
(* Pydantic records *)

ValidationError == [ok |-> FALSE, value |-> [none |-> TRUE]]
Valid(v) == [ok |-> TRUE, value |-> v]

\* a field annotated `str = None`, given `value` explicitly: pydantic 1 makes the
\* annotation Optional[str]; pydantic 2 keeps str, which rejects None
StrFieldAccepts(value) == value # None \/ pydantic = "v1"

\* ItemCreate parsed from a JSON body; an omitted description takes the default
ItemCreate(json) ==
  LET description == IF json.description = Missing THEN None ELSE json.description
  IN  IF json.description # Missing /\ ~StrFieldAccepts(json.description)
      THEN ValidationError
      ELSE Valid([title |-> json.title, description |-> description])

\* ItemResponse(id=..., title=..., description=..., owner_id=...)
ItemResponse(id, title, description, owner_id) ==
  IF ~StrFieldAccepts(description)
  THEN ValidationError
  ELSE Valid([id |-> id, title |-> title, description |-> description,
              owner_id |-> owner_id])

----------------------------------------------------------------------------
(* Handlers of example_router *)

\* getattr(user, "username", default)
getattr_username(user, default) ==
  IF user.username = Missing THEN default ELSE user.username

\* variant: user_id carries the email instead of the identifier
protected_endpoint_email_id(user) ==
  Valid([message |-> "Hello " \o user.email \o "!",
         user_id |-> user.email,
         username |-> getattr_username(user, "N/A")])

\* variant: the handler reads the user from a module-level "current user" that
\* every resolving request overwrites
protected_endpoint_global(user) ==
  LET resolved == {c.user : c \in {x \in BagToSet(inflight) : x.stage = "resolved"}}
      current == IF resolved = {} THEN user ELSE CHOOSE u \in resolved : TRUE
  IN  Valid([message |-> "Hello " \o current.email \o "!",
             user_id |-> str(current.id),
             username |-> getattr_username(current, "N/A")])

protected_endpoint(user) ==
  Valid([message |-> "Hello " \o user.email \o "!",
         user_id |-> str(user.id),
         username |-> getattr_username(user, "N/A")])

admin_only_endpoint(user) ==
  Valid([message |-> "Hello admin " \o user.email \o "!",
         is_superuser |-> user.is_superuser])

\* variant: the identifier is allocated from the number of items created so far
create_item_counting(item, user) ==
  ItemResponse(created + 1, item.title, item.description, str(user.id))

create_item(item, user) ==
  ItemResponse(1, item.title, item.description, str(user.id))

\* variant: the mock item is attributed to the user's email
get_user_items_email_owner(user) ==
  LET it == ItemResponse(1, "User's Item 1", "This belongs to the current user",
                         user.email)
  IN  IF it.ok THEN Valid([list |-> <<it.value>>]) ELSE ValidationError

get_user_items(user) ==
  LET it == ItemResponse(1, "User's Item 1", "This belongs to the current user",
                         str(user.id))
  IN  IF it.ok THEN Valid([list |-> <<it.value>>]) ELSE ValidationError

----------------------------------------------------------------------------
(* Routes *)

Protected == "GET /examples/protected"
AdminOnly == "GET /examples/admin-only"
CreateItem == "POST /examples/items"
ListItems == "GET /examples/items"
Endpoints == {Protected, AdminOnly, CreateItem, ListItems}

NoBody == [none |-> TRUE]
Bodies == { [title |-> "T", description |-> Missing],
            [title |-> "T2", description |-> "D"] }

Requests ==
  { [endpoint |-> e, creds |-> c, body |-> NoBody] :
      e \in Endpoints \ {CreateItem}, c \in Credentials }
  \cup { [endpoint |-> CreateItem, creds |-> c, body |-> b] :
      c \in Credentials, b \in Bodies }

\* variant: /admin-only declares current_active_user like the other routes
Depends_active_everywhere(endpoint, creds) == current_active_user(creds)

\* the dependency each route declares with Depends(...)
Depends(endpoint, creds) ==
  IF endpoint = AdminOnly THEN current_superuser(creds)
  ELSE current_active_user(creds)

NoResponse == [status |-> 0, body |-> [none |-> TRUE]]
Ok(body) == [status |-> 200, body |-> body]
UnprocessableEntity == [status |-> 422, body |-> [detail |-> "Unprocessable Entity"]]
InternalServerError == [status |-> 500, body |-> [detail |-> "Internal Server Error"]]

\* a handler's return value as a response; an exception it raises is a 500
Returned(result) == IF result.ok THEN Ok(result.value) ELSE InternalServerError

\* the route's handler called with the parsed body and the resolved user
Endpoint(request, user) ==
  IF request.endpoint = Protected THEN Returned(protected_endpoint(user))
  ELSE IF request.endpoint = AdminOnly THEN Returned(admin_only_endpoint(user))
  ELSE IF request.endpoint = ListItems THEN Returned(get_user_items(user))
  ELSE IF ~ItemCreate(request.body).ok THEN UnprocessableEntity
  ELSE Returned(create_item(ItemCreate(request.body).value, user))

\* whether the handler body is entered for the request
HandlerRuns(request) ==
  request.endpoint # CreateItem \/ ItemCreate(request.body).ok

\* app.include_router(example_router) without any middleware
example_router(request) ==
  LET d == Depends(request.endpoint, request.creds)
  IN  IF d.ok THEN Endpoint(request, d.user) ELSE d.error

----------------------------------------------------------------------------
(* Middleware *)

\* variant: the middleware strips the credentials before forwarding
call_next_requests_stripped(request) == <<[request EXCEPT !.creds = Anonymous]>>

\* the requests add_user_info passes to call_next, in order
call_next_requests(request) == <<request>>

\* variant: the middleware turns an authentication failure into a guest response
add_user_info_guest(response) ==
  IF response.status = 401 THEN Ok([detail |-> "guest"]) ELSE response

\* what add_user_info returns, given the response call_next produced
add_user_info(response) == response

----------------------------------------------------------------------------
(* Requests in flight *)

Call(request) ==
  [request |-> request, forwarded |-> call_next_requests(request),
   stage |-> "resolving", via |-> auth, user |-> NoUser, ran |-> FALSE,
   inner |-> NoResponse, response |-> NoResponse]

InFlight == BagToSet(inflight)

Replace(old, new) == (inflight (-) SetToBag({old})) (+) SetToBag({new})

----------------------------------------------------------------------------
(* Actions *)

Init ==
  /\ environ \in EnvValues
  /\ BACKEND = NotImported
  /\ auth = NotImported
  /\ pydantic \in PydanticVersions
  /\ inflight = EmptyBag
  /\ created = 0

\* the module is imported: BACKEND is read and the collaborator chosen
Import ==
  /\ BACKEND = NotImported
  /\ BACKEND' = getenv(environ, "sqlalchemy")
  /\ auth' = ImportedModule(BACKEND')
  /\ UNCHANGED <<environ, pydantic, inflight, created>>

\* the environment variable is changed from outside
SetEnv ==
  \E v \in EnvValues :
    /\ v # environ
    /\ environ' = v
    /\ UNCHANGED <<BACKEND, auth, pydantic, inflight, created>>

\* a request arrives: add_user_info runs up to its await of call_next
Receive ==
  \E request \in Requests :
    /\ BACKEND # NotImported
    /\ BagCardinality(inflight) < NReq
    /\ inflight' = inflight (+) SetToBag({Call(request)})
    /\ UNCHANGED <<environ, BACKEND, auth, pydantic, created>>

\* the route's identity-resolution dependency completes
Resolve ==
  \E c \in InFlight :
    /\ c.stage = "resolving"
    /\ LET request == Head(c.forwarded)
           d == Depends(request.endpoint, request.creds)
       IN  inflight' =
             IF d.ok
             THEN Replace(c, [c EXCEPT !.stage = "resolved", !.user = d.user])
             ELSE Replace(c, [c EXCEPT !.stage = "responded", !.inner = d.error,
                                       !.response = add_user_info(d.error)])
    /\ UNCHANGED <<environ, BACKEND, auth, pydantic, created>>

\* the body is validated, the handler runs, the response goes back through
\* add_user_info
Handle ==
  \E c \in InFlight :
    /\ c.stage = "resolved"
    /\ LET request == Head(c.forwarded)
           r == Endpoint(request, c.user)
           item == request.endpoint = CreateItem /\ r.status = 200
       IN  /\ item => created < MaxPosts
           /\ inflight' = Replace(c, [c EXCEPT !.stage = "responded",
                                               !.ran = HandlerRuns(request),
                                               !.inner = r,
                                               !.response = add_user_info(r)])
           /\ created' = IF item THEN created + 1 ELSE created
    /\ UNCHANGED <<environ, BACKEND, auth, pydantic>>

\* the response has been sent
Release ==
  \E c \in InFlight :
    /\ c.stage = "responded"
    /\ inflight' = inflight (-) SetToBag({c})
    /\ UNCHANGED <<environ, BACKEND, auth, pydantic, created>>

Next == Import \/ SetEnv \/ Receive \/ Resolve \/ Handle \/ Release

Spec == Init /\ [][Next]_vars

----------------------------------------------------------------------------
(* Properties *)

Responded == {c \in InFlight : c.stage = "responded"}

\* the identity the request's own credentials stand for
Caller(c) == UserOf(c.request.creds)

Authenticated(c) == c.request.creds # Anonymous

\* the request satisfies what its endpoint requires of the caller
Entitled(c) ==
  /\ Authenticated(c)
  /\ c.request.endpoint = AdminOnly => Caller(c).is_superuser

Succeeded(c) == c \in Responded /\ c.response.status = 200

\* C1: the handler body runs only for a request whose identity-resolution
\* dependency succeeded; a request whose dependency fails never runs the handler
\* and is answered with the collaborator's error, unchanged and never a 200.
C1_HandlerOnlyAfterDependency ==
  \A c \in InFlight :
    /\ c.ran => (Entitled(c) /\ c.user = Caller(c) /\ c.stage = "responded")
    /\ (c \in Responded /\ ~Entitled(c)) =>
         /\ ~c.ran
         /\ c.user = NoUser
         /\ c.response = (IF Authenticated(c) THEN Forbidden ELSE Unauthorized)
         /\ c.response.status # 200

C1_Witness ==
  /\ \E c \in Responded : ~Entitled(c) /\ ~c.ran /\ c.response.status \in {401, 403}
  /\ \E c \in Responded : c.ran /\ c.response.status = 200

\* C2: for a resolved active user U, GET /examples/protected answers 200 with
\* message exactly "Hello <U.email>!" and user_id the string form of U.id.
C2_ProtectedEchoesUser ==
  \A c \in Responded :
    (c.request.endpoint = Protected /\ Authenticated(c)) =>
      /\ c.response.status = 200
      /\ c.response.body.message = "Hello " \o Caller(c).email \o "!"
      /\ c.response.body.user_id = ToString(Caller(c).id)

C2_Witness ==
  \E c \in Responded :
    /\ c.request.endpoint = Protected
    /\ c.response.status = 200
    /\ c.response.body.message = "Hello alice@example.com!"
    /\ c.response.body.user_id = "42"

\* C3: for a resolved superuser, GET /examples/admin-only answers 200 with
\* is_superuser true, and every 200 of that endpoint carries is_superuser true.
C3_AdminOnlyIsSuperuser ==
  \A c \in Responded :
    c.request.endpoint = AdminOnly =>
      /\ (Authenticated(c) /\ Caller(c).is_superuser) => c.response.status = 200
      /\ c.response.status = 200 => c.response.body.is_superuser = TRUE

C3_Witness ==
  \E c \in Responded :
    /\ c.request.endpoint = AdminOnly
    /\ c.response.status = 200
    /\ c.response.body.is_superuser = TRUE
    /\ c.response.body.message = "Hello admin root@example.com!"

\* C4: for any ItemCreate body and resolved caller, POST /examples/items answers
\* 200 with id 1, the body's title, the body's description (null when omitted)
\* and owner_id the string form of the caller's identifier.
C4_CreateItemReturnsItem ==
  \A c \in Responded :
    (c.request.endpoint = CreateItem /\ Authenticated(c)) =>
      c.response =
        Ok([id |-> 1,
            title |-> c.request.body.title,
            description |-> IF c.request.body.description = Missing
                            THEN None ELSE c.request.body.description,
            owner_id |-> ToString(Caller(c).id)])

\* C5: for a resolved caller, GET /examples/items answers 200 with a list of
\* exactly one item whose owner_id is the string form of the caller's identifier,
\* whose title is "User's Item 1" and whose id is 1.
C5_ListItemsOneMockItem ==
  \A c \in Responded :
    (c.request.endpoint = ListItems /\ Authenticated(c)) =>
      /\ c.response.status = 200
      /\ Len(c.response.body.list) = 1
      /\ c.response.body.list[1].owner_id = ToString(Caller(c).id)
      /\ c.response.body.list[1].title = "User's Item 1"
      /\ c.response.body.list[1].id = 1

C5_Witness ==
  \E c \in Responded :
    /\ c.request.endpoint = ListItems
    /\ c.response.status = 200
    /\ c.response.body.list[1].owner_id = "13"

\* C6: add_user_info forwards the request unchanged to call_next exactly once and
\* returns call_next's response unchanged, so every response equals the one the
\* router gives without the middleware.
C6_MiddlewareTransparent ==
  \A c \in InFlight :
    /\ c.forwarded = <<c.request>>
    /\ c \in Responded =>
         /\ c.response = c.inner
         /\ c.response = example_router(c.request)

C6_Witness ==
  /\ \E c \in Responded : c.response.status = 200
  /\ \E c \in Responded : c.response.status = 401

\* C7: nothing is persisted: however many items earlier POSTs returned, GET
\* /examples/items answers the same one-element mock list for its caller and a
\* POST that returns an item returns id 1.
C7_NothingPersisted ==
  \A c \in Responded :
    /\ (c.request.endpoint = ListItems /\ c.response.status = 200) =>
         c.response.body.list =
           << [id |-> 1, title |-> "User's Item 1",
               description |-> "This belongs to the current user",
               owner_id |-> ToString(Caller(c).id)] >>
    /\ (c.request.endpoint = CreateItem /\ c.response.status = 200) =>
         c.response.body.id = 1

C7_Witness ==
  /\ created >= 2
  /\ \E c \in Responded : c.request.endpoint = CreateItem /\ c.response.status = 200
  /\ \E c \in Responded : c.request.endpoint = ListItems /\ c.response.status = 200

\* C8: GET /examples/protected returns the user's display name as username, the
\* placeholder "N/A" when there is none, and never null.
C8_UsernameNeverNull ==
  \A c \in Responded :
    (c.request.endpoint = Protected /\ c.response.status = 200) =>
      /\ c.response.body.username # None
      /\ c.response.body.username =
           IF Caller(c).username \in {Missing, None} THEN "N/A"
           ELSE Caller(c).username

\* C9: the collaborator module is chosen once, when the module is imported:
\* sqlalchemy for an unset variable or the value "sqlalchemy", beanie for every
\* other value; later changes of the variable change neither BACKEND nor the
\* module the requests are resolved by.
C9_BackendChosenOnceAtImport ==
  [][ /\ (BACKEND = NotImported /\ BACKEND' # NotImported) =>
           auth' = IF environ \in {Unset, "sqlalchemy"}
                   THEN SqlalchemyModule ELSE BeanieModule
      /\ BACKEND # NotImported => (BACKEND' = BACKEND /\ auth' = auth)
      /\ \A c \in BagToSet(inflight') : c.via = auth' ]_vars

C9_Witness ==
  /\ BACKEND = "SQLAlchemy"
  /\ auth = BeanieModule
  /\ environ = "sqlalchemy"
  /\ \E c \in Responded : c.via = BeanieModule /\ c.response.status = 200

\* C10: with requests of different callers interleaved, a 200 response of
\* /examples/protected, POST /examples/items or GET /examples/items carries the
\* identifier of its own request's caller, and is the response the request's body
\* and identity alone determine.
C10_ResponseCarriesOwnIdentity ==
  \A c \in Responded :
    c.response.status = 200 =>
      /\ c.request.endpoint = Protected =>
           c.response.body.user_id = ToString(Caller(c).id)
      /\ c.request.endpoint = CreateItem =>
           c.response.body.owner_id = ToString(Caller(c).id)
      /\ c.request.endpoint = ListItems =>
           \A i \in 1..Len(c.response.body.list) :
             c.response.body.list[i].owner_id = ToString(Caller(c).id)
      /\ c.request.endpoint # AdminOnly =>
           c.response = Endpoint(c.request, Caller(c))

C10_Witness ==
  \E c \in Responded, d \in InFlight :
    /\ c.response.status = 200
    /\ c.request.endpoint = Protected
    /\ d.stage = "resolved"
    /\ d.user # c.user

====
